---------------------------- MODULE Spec2Model ----------------------------
(***************************************************************************)
(* KindRewrite server (server.js): the two request handlers                *)
(*   POST /api/moderate   proxy to the remote toxicity-scoring service     *)
(*   POST /api/rewrite    rule-based rewrite (softening + tone template)   *)
(* Texts are TLA+ strings handled character by character, so that the      *)
(* regular expressions of the source are modelled by what they match.      *)
(* Texts are ASCII.  req.body is the object express.json() parsed.  Numbers *)
(* are fixed-point thousandths, not IEEE doubles.  What the remote service  *)
(* answers, and the errors Client.connect and client.predict reject with,  *)
(* are inputs of the model.                                                *)
(***************************************************************************)
EXTENDS Integers, Sequences, FiniteSets, TLC

(***************************************************************************)
(* Characters and the JavaScript string primitives the source uses.        *)
(***************************************************************************)
Uppers == "ABCDEFGHIJKLMNOPQRSTUVWXYZ"
Lowers == "abcdefghijklmnopqrstuvwxyz"
Digits == "0123456789"

\* s.charAt(i-1): the one-character string at 1-based position i, "" outside.
CharAt(s, i) == IF i >= 1 /\ i <= Len(s) THEN SubSeq(s, i, i) ELSE ""

CharsOf(s) == { SubSeq(s, i, i) : i \in 1..Len(s) }

\* \w of a regular expression without the u flag: [A-Za-z0-9_].
WordChars == CharsOf(Uppers) \cup CharsOf(Lowers) \cup CharsOf(Digits) \cup {"_"}

\* \s restricted to the white space the model's texts can hold.
SpaceChars == {" ", "\t", "\n"}

LowerOf == [c \in CharsOf(Uppers) |->
              SubSeq(Lowers, CHOOSE i \in 1..26 : SubSeq(Uppers, i, i) = c,
                             CHOOSE i \in 1..26 : SubSeq(Uppers, i, i) = c)]

UpperOf == [c \in CharsOf(Lowers) |->
              SubSeq(Uppers, CHOOSE i \in 1..26 : SubSeq(Lowers, i, i) = c,
                             CHOOSE i \in 1..26 : SubSeq(Lowers, i, i) = c)]

\* Case folding of one character under the i flag (ASCII letters).
ToLowerChar(c) == IF c \in DOMAIN LowerOf THEN LowerOf[c] ELSE c

\* c.toUpperCase() for one character (ASCII letters).
ToUpperChar(c) == IF c \in DOMAIN UpperOf THEN UpperOf[c] ELSE c

RECURSIVE ToLowerFrom(_, _)
ToLowerFrom(s, i) ==
    IF i > Len(s) THEN "" ELSE ToLowerChar(SubSeq(s, i, i)) \o ToLowerFrom(s, i + 1)

ToLower(s) == ToLowerFrom(s, 1)

\* s.slice(i-1): the suffix starting at 1-based position i.
Slice(s, i) == SubSeq(s, i, Len(s))

\* s.substring(0, n)
Substring0(s, n) == SubSeq(s, 1, IF n < Len(s) THEN n ELSE Len(s))

RECURSIVE TrimStart(_)
TrimStart(s) ==
    IF Len(s) > 0 /\ SubSeq(s, 1, 1) \in SpaceChars THEN TrimStart(Slice(s, 2)) ELSE s

RECURSIVE TrimEnd(_)
TrimEnd(s) ==
    IF Len(s) > 0 /\ SubSeq(s, Len(s), Len(s)) \in SpaceChars
    THEN TrimEnd(SubSeq(s, 1, Len(s) - 1)) ELSE s

\* s.trim()
Trim(s) == TrimEnd(TrimStart(s))

\* s.replace(/\s+/g, ' '): every maximal run of white space becomes one space.
\* What position i contributes: a run's first white-space character the one
\* space, its other characters nothing, any other character itself.
CollapseAt(s, i) ==
    IF SubSeq(s, i, i) \in SpaceChars
    THEN IF i > 1 /\ SubSeq(s, i - 1, i - 1) \in SpaceChars THEN "" ELSE " "
    ELSE SubSeq(s, i, i)

RECURSIVE CollapseRange(_, _, _)
CollapseRange(s, lo, hi) ==
    IF lo > hi THEN ""
    ELSE IF lo = hi THEN CollapseAt(s, lo)
    ELSE CollapseRange(s, lo, (lo + hi) \div 2) \o CollapseRange(s, (lo + hi) \div 2 + 1, hi)

CollapseSpaces(s) == CollapseRange(s, 1, Len(s))

(***************************************************************************)
(* Step 1 of applyRewriteRules: the ordered substitution rules.  A rule    *)
(* /\b(a1|a2|...)\b/gi is its alternatives, in the order the regular       *)
(* expression tries them, and its replacement.                             *)
(***************************************************************************)
\* Faulty variant: the ninth replacement holds "never", a target of the fourth rule.
aggressivePatterns_neverWorked ==
    << [alts |-> <<"stupid", "dumb", "idiotic", "moronic">>, replacement |-> "unclear"],
       [alts |-> <<"hate", "despise", "loathe">>, replacement |-> "don't prefer"],
       [alts |-> <<"terrible", "awful", "horrible", "atrocious">>, replacement |-> "not ideal"],
       [alts |-> <<"never", "always">>, replacement |-> "sometimes"],
       [alts |-> <<"useless", "worthless">>, replacement |-> "not quite working"],
       [alts |-> <<"waste of time">>, replacement |-> "could be optimized"],
       [alts |-> <<"wrong", "incorrect">>, replacement |-> "might need adjustment"],
       [alts |-> <<"obviously", "clearly">>, replacement |-> "it seems"],
       [alts |-> <<"fail", "failed", "failure">>, replacement |-> "never worked out"],
       [alts |-> <<"ridiculous", "absurd">>, replacement |-> "surprising"] >>

aggressivePatterns ==
    << [alts |-> <<"stupid", "dumb", "idiotic", "moronic">>, replacement |-> "unclear"],
       [alts |-> <<"hate", "despise", "loathe">>, replacement |-> "don't prefer"],
       [alts |-> <<"terrible", "awful", "horrible", "atrocious">>, replacement |-> "not ideal"],
       [alts |-> <<"never", "always">>, replacement |-> "sometimes"],
       [alts |-> <<"useless", "worthless">>, replacement |-> "not quite working"],
       [alts |-> <<"waste of time">>, replacement |-> "could be optimized"],
       [alts |-> <<"wrong", "incorrect">>, replacement |-> "might need adjustment"],
       [alts |-> <<"obviously", "clearly">>, replacement |-> "it seems"],
       [alts |-> <<"fail", "failed", "failure">>, replacement |-> "didn't work out"],
       [alts |-> <<"ridiculous", "absurd">>, replacement |-> "surprising"] >>

\* The assertion \b at the gap before 1-based position i (i in 1..Len(s)+1).
WordBoundary(s, i) ==
    (CharAt(s, i - 1) \in WordChars) # (CharAt(s, i) \in WordChars)

\* Faulty variant: the pattern without its trailing \b.
AltMatches_noTrailingBoundary(a, s, i) ==
    /\ i + Len(a) - 1 <= Len(s)
    /\ ToLower(SubSeq(s, i, i + Len(a) - 1)) = a

\* Alternative a matches at position i, case-insensitively, and \b follows it.
AltMatches(a, s, i) ==
    /\ i + Len(a) - 1 <= Len(s)
    /\ ToLower(SubSeq(s, i, i + Len(a) - 1)) = a
    /\ WordBoundary(s, i + Len(a))

\* Length of the match of \b(a1|a2|...)\b starting at position i, 0 if none:
\* the first alternative, in order, after which the trailing \b holds.
MatchLen(alts, s, i) ==
    IF WordBoundary(s, i) /\ \E k \in 1..Len(alts) : AltMatches(alts[k], s, i)
    THEN Len(alts[CHOOSE k \in 1..Len(alts) :
                    /\ AltMatches(alts[k], s, i)
                    /\ \A j \in 1..(k - 1) : ~AltMatches(alts[j], s, i)])
    ELSE 0

\* Positions at or after i where the pattern matches.
MatchesFrom(alts, s, i) == { j \in i..Len(s) : MatchLen(alts, s, j) > 0 }

Least(S) == CHOOSE j \in S : \A k \in S : j <= k

\* result.replace(pattern, replacement) with the g flag: scan from the left,
\* copy up to the leftmost match, replace it and resume after it.
RECURSIVE ReplaceFrom(_, _, _)
ReplaceFrom(rule, s, i) ==
    LET M == MatchesFrom(rule.alts, s, i)
        j == Least(M)
    IN  IF M = {} THEN Slice(s, i)
        ELSE SubSeq(s, i, j - 1) \o rule.replacement
             \o ReplaceFrom(rule, s, j + MatchLen(rule.alts, s, j))

ReplaceAll(rule, s) == ReplaceFrom(rule, s, 1)

\* for (const { pattern, replacement } of aggressivePatterns) result = ...
RECURSIVE SoftenFrom(_, _)
SoftenFrom(s, k) ==
    IF k > Len(aggressivePatterns) THEN s
    ELSE SoftenFrom(ReplaceAll(aggressivePatterns[k], s), k + 1)

Soften(text) == SoftenFrom(text, 1)

(***************************************************************************)
(* Step 2: the tone templates.                                             *)
(***************************************************************************)
SubstringLimit == 100

Terminators == {".", "!", "?"}

\* text.charAt(0).toUpperCase() + text.slice(1)
Capitalize(text) == ToUpperChar(CharAt(text, 1)) \o Slice(text, 2)

wrapProfessional(text) ==
    "I wanted to share some feedback regarding this matter. "
    \o Capitalize(Trim(CollapseSpaces(text)))
    \o " I believe addressing this could lead to better outcomes. Please let me know your thoughts."

wrapCalm(text) ==
    "I understand there may be different perspectives here. "
    \o Capitalize(Trim(CollapseSpaces(text)))
    \o " I'd appreciate the opportunity to discuss this further when you have time."

\* The outro's closing emoji is written :) here.
wrapFriendly(text) ==
    "Hey! I wanted to chat about something. "
    \o Capitalize(Trim(CollapseSpaces(text)))
    \o " Would love to hear your take on this! :)"

\* Length of the longest prefix of s holding no terminator: what the greedy
\* [^.!?]+ consumes from position 1.
NonTerminatorRun(s) ==
    IF \E i \in 1..Len(s) : SubSeq(s, i, i) \in Terminators
    THEN Least({ i \in 1..Len(s) : SubSeq(s, i, i) \in Terminators }) - 1
    ELSE Len(s)

\* Faulty variant: /^[^.!?]*[.!?]/, which also matches a terminator at the start.
FirstSentence_star(text) ==
    LET n == NonTerminatorRun(text)
    IN  IF n < Len(text)
        THEN SubSeq(text, 1, n + 1)
        ELSE Substring0(text, SubstringLimit)

\* text.match(/^[^.!?]+[.!?]/)?.[0] || text.substring(0, 100): the match needs
\* one or more non-terminators and then a terminator; backtracking into the
\* run cannot help, since every character of the run is a non-terminator.
FirstSentence(text) ==
    LET n == NonTerminatorRun(text)
    IN  IF n >= 1 /\ n < Len(text)
        THEN SubSeq(text, 1, n + 1)
        ELSE Substring0(text, SubstringLimit)

wrapShort(text) ==
    "Quick note: " \o Trim(FirstSentence(Trim(CollapseSpaces(text)))) \o " Let's discuss."

Tones == {"professional", "calm", "friendly", "short"}

\* switch (tone) { ... }: no case, no change.
ApplyTone(result, tone) ==
    CASE tone = "professional" -> wrapProfessional(result)
      [] tone = "calm" -> wrapCalm(result)
      [] tone = "friendly" -> wrapFriendly(result)
      [] tone = "short" -> wrapShort(result)
      [] OTHER -> result

\* RewriteHandle below takes the two steps apart to keep step 1's result.
applyRewriteRules(text, tone) == ApplyTone(Soften(text), tone)

(***************************************************************************)
(* JavaScript values of the request and upstream bodies.  Numbers are kept *)
(* in thousandths (n = 754 is 0.754); NaN is the number tagged "NaN".      *)
(***************************************************************************)
JSVal(t, s, n) == [t |-> t, s |-> s, n |-> n]
Undefined == JSVal("undefined", "", 0)
Null == JSVal("null", "", 0)
NaN == JSVal("number", "NaN", 0)
Str(s) == JSVal("string", s, 0)
Num(n) == JSVal("number", "", n)

IsString(v) == v.t = "string"
IsNaN(v) == v.t = "number" /\ v.s = "NaN"
IsFinite(v) == v.t = "number" /\ v.s = ""

\* !v is false
Truthy(v) ==
    CASE v.t = "undefined" -> FALSE
      [] v.t = "null" -> FALSE
      [] v.t = "string" -> v.s # ""
      [] v.t = "number" -> v.s = "" /\ v.n # 0
      [] OTHER -> TRUE

\* ToNumber, as v * 100 applies it; the model's strings are "" or non-numeric.
ToNumber(v) ==
    CASE v.t = "number" -> v
      [] v.t = "null" -> Num(0)
      [] v.t = "string" /\ v.s = "" -> Num(0)
      [] OTHER -> NaN

\* v * 100
Times100(v) == IF IsFinite(ToNumber(v)) THEN Num(ToNumber(v).n * 100) ELSE NaN

\* Math.round(v): the nearest integer, a tie going up.
MathRound(v) == IF IsFinite(v) THEN Num(((v.n + 500) \div 1000) * 1000) ELSE NaN

\* s.includes(sub)
Includes(s, sub) ==
    \E i \in 1..(Len(s) - Len(sub) + 1) : SubSeq(s, i, i + Len(sub) - 1) = sub

\* result.data?.[1] of the upstream response, by what it holds:
\*   "absent"   no data, or no second entry        "empty"  the string ""
\*   "invalid"  a string that is no JSON text      "null"   the JSON text null
\*   "object"   the JSON text of an object, whose member max_value is
\*              max_value (Undefined: no such member)
Payload(kind, max_value) == [kind |-> kind, max_value |-> max_value]
NoPayload == Payload("absent", Undefined)

(***************************************************************************)
(* Responses: res.status(code).json(body).                                 *)
(***************************************************************************)
NoResponse ==
    [status |-> 0, error |-> "", scorePct |-> Undefined, score01 |-> Undefined,
     raw |-> NoPayload, rewritten |-> "", tone |-> ""]

ErrorResponse(code, msg) == [NoResponse EXCEPT !.status = code, !.error = msg]

(***************************************************************************)
(* POST /api/rewrite.  The handler holds no await: it runs to its response *)
(* in one step of the event loop.  req.body is the parsed JSON object.     *)
(***************************************************************************)
RewriteInvalidText == "Invalid input: text field is required and must be a string"
RewriteInvalidTone == "Invalid input: tone must be one of: professional, calm, friendly, short"

\* The validation of lines 122-132: the 400 response, or NoResponse to go on.
RewriteValidate(text, tone) ==
    IF ~Truthy(text) \/ ~IsString(text)
    THEN ErrorResponse(400, RewriteInvalidText)
    ELSE IF ~Truthy(tone) \/ ~(IsString(tone) /\ tone.s \in Tones)
    THEN ErrorResponse(400, RewriteInvalidTone)
    ELSE NoResponse

\* res.json({ rewritten, tone })
RewriteSuccess(rewritten, tone) ==
    [NoResponse EXCEPT !.status = 200, !.rewritten = rewritten, !.tone = tone.s]

(***************************************************************************)
(* Inputs of the rewrite endpoint: texts assembled from fragments, and     *)
(* every target word alone, in upper case, and inside longer words.        *)
(***************************************************************************)
MaxFrags == 3

Filler == "aaaaaaaaaabbbbbbbbbbccccccccccddddddddddeeeeeeeeeef"

Fragments ==
    {"Stupid", "ity", "NEVER", "Failed", "waste of time", " ", ".", "!", Filler}

RECURSIVE Concats(_)
Concats(n) ==
    IF n = 0 THEN {""}
    ELSE Concats(n - 1) \cup { t \o f : t \in Concats(n - 1), f \in Fragments }

Targets ==
    UNION { { aggressivePatterns[k].alts[j] : j \in 1..Len(aggressivePatterns[k].alts) } :
            k \in 1..Len(aggressivePatterns) }

RECURSIVE ToUpperFrom(_, _)
ToUpperFrom(s, i) ==
    IF i > Len(s) THEN "" ELSE ToUpperChar(SubSeq(s, i, i)) \o ToUpperFrom(s, i + 1)

TargetTexts ==
    UNION { { a, ToUpperFrom(a, 1), "Un" \o a, a \o "s", a \o "_", "9" \o a,
              "so " \o a \o "? no", a \o "-" \o a, a \o "  \t" \o a,
              a \o "ity " \o a } : a \in Targets }

ToneTexts == {"", "  ", " \t\n", "you Always fail.  it's terrible!", "?what"}

RewriteTextValues == { Str(t) : t \in ToneTexts } \cup {Undefined, Null, Num(7000)}

RewriteToneValues == { Str(t) : t \in Tones \cup {"rude", ""} } \cup {Undefined, Num(1000)}

\* Request bodies: every text value with every tone value, and the assembled
\* texts with the tone short, whose template alone cuts the text.
RewriteBodies ==
    [text : RewriteTextValues, tone : RewriteToneValues]
    \cup [text : { Str(t) : t \in Concats(MaxFrags) \cup TargetTexts }, tone : {Str("short")}]

VARIABLES rwPc, rwBody, rwSoftened, rwResp, hfToken, pc, body, calls, result, caught, resp

rwVars == <<rwPc, rwBody, rwSoftened, rwResp>>
modVars == <<hfToken, pc, body, calls, result, caught, resp>>
vars == <<rwPc, rwBody, rwSoftened, rwResp, hfToken, pc, body, calls, result, caught, resp>>

NoBody == [text |-> Undefined, tone |-> Undefined]

RewriteInit ==
    /\ rwPc = "idle"
    /\ rwBody = NoBody
    /\ rwSoftened = ""
    /\ rwResp = NoResponse

\* app.post('/api/rewrite', ...): one request, from its arrival to its response.
\* rwSoftened keeps applyRewriteRules' result as step 1 leaves it.
RewriteHandle(b) ==
    /\ rwPc = "idle"
    /\ rwPc' = "responded"
    /\ rwBody' = b
    /\ IF RewriteValidate(b.text, b.tone) # NoResponse
       THEN /\ rwSoftened' = ""
            /\ rwResp' = RewriteValidate(b.text, b.tone)
       ELSE /\ rwSoftened' = Soften(b.text.s)
            /\ rwResp' = RewriteSuccess(ApplyTone(rwSoftened', b.tone.s), b.tone)

\* The response is sent; the server waits for the next request.
RewriteNext ==
    /\ rwPc = "responded"
    /\ rwPc' = "idle"
    /\ rwBody' = NoBody
    /\ rwSoftened' = ""
    /\ rwResp' = NoResponse

(***************************************************************************)
(* POST /api/moderate.  The handler suspends at its two awaits, so it is   *)
(* three steps: from arrival to Client.connect, from the connection to     *)
(* client.predict, and from the prediction to the response.                *)
(***************************************************************************)
NReq == 2
Reqs == 1..NReq

MaxTextLen == 5000

ModerateInvalidText == "Invalid input: text field is required and must be a string"
ModerateEmptyText == "Invalid input: text cannot be empty"
ModerateTooLong == "Invalid input: text is too long (max 5000 characters)"
ModerateNoToken == "Server configuration error: HF_TOKEN not set"
ModerateUnavailable == "Unable to connect to moderation service. Please try again."
ModerateFailed == "Failed to analyze message. Please try again."

\* Faulty variant: the credential is checked before the text.
ModerateValidate_tokenFirst(text, token) ==
    IF ~token THEN ErrorResponse(500, ModerateNoToken)
    ELSE IF ~Truthy(text) \/ ~IsString(text) THEN ErrorResponse(400, ModerateInvalidText)
    ELSE IF Len(Trim(text.s)) = 0 THEN ErrorResponse(400, ModerateEmptyText)
    ELSE IF Len(text.s) > MaxTextLen THEN ErrorResponse(400, ModerateTooLong)
    ELSE NoResponse

\* Faulty variant: the limit is applied to the trimmed text.
ModerateValidate_trimmedLimit(text, token) ==
    IF ~Truthy(text) \/ ~IsString(text) THEN ErrorResponse(400, ModerateInvalidText)
    ELSE IF Len(Trim(text.s)) = 0 THEN ErrorResponse(400, ModerateEmptyText)
    ELSE IF Len(Trim(text.s)) > MaxTextLen THEN ErrorResponse(400, ModerateTooLong)
    ELSE IF ~token THEN ErrorResponse(500, ModerateNoToken)
    ELSE NoResponse

\* Lines 32-55: the response of the first check that fails, or NoResponse.
ModerateValidate(text, token) ==
    IF ~Truthy(text) \/ ~IsString(text) THEN ErrorResponse(400, ModerateInvalidText)
    ELSE IF Len(Trim(text.s)) = 0 THEN ErrorResponse(400, ModerateEmptyText)
    ELSE IF Len(text.s) > MaxTextLen THEN ErrorResponse(400, ModerateTooLong)
    ELSE IF ~token THEN ErrorResponse(500, ModerateNoToken)
    ELSE NoResponse

\* An error: its message, and what failed (kind), which the handler cannot
\* see: "connection" for a network failure of the outbound call, "other".
Error(kind, message) == [kind |-> kind, message |-> message]
NoError == Error("none", "")

\* The catch block, lines 94-107.
CatchResponse(error) ==
    IF Includes(error.message, "connect")
    THEN ErrorResponse(503, ModerateUnavailable)
    ELSE ErrorResponse(500, ModerateFailed)

\* What lines 73-83 throw on the payload, NoError if nothing: the handler's own
\* Error, JSON.parse's SyntaxError, the TypeError of reading a member of null.
Thrown(p) ==
    CASE p.kind \in {"absent", "empty"} -> Error("other", "Unexpected API response format")
      [] p.kind = "invalid" -> Error("other", "Unexpected token o in JSON at position 1")
      [] p.kind = "null" ->
            Error("other", "Cannot read properties of null (reading 'max_value')")
      [] OTHER -> NoError

\* Lines 83-92, once nothing was thrown.
ModerateSuccess(p) ==
    [NoResponse EXCEPT !.status = 200,
                       !.scorePct = MathRound(Times100(p.max_value)),
                       !.score01 = p.max_value,
                       !.raw = p]

(***************************************************************************)
(* Inputs of the moderate endpoint and outcomes of the remote service.     *)
(***************************************************************************)
RECURSIVE Fill(_)
Fill(n) ==
    IF n = 0 THEN ""
    ELSE IF n % 2 = 0 THEN Fill(n \div 2) \o Fill(n \div 2)
    ELSE "x" \o Fill(n - 1)

ModerateTextValues ==
    { Undefined, Num(7000), Str(""), Str(" \t"), Str(" you are stupid "),
      Str(Fill(MaxTextLen)), Str(Fill(MaxTextLen + 1)), Str(" " \o Fill(MaxTextLen)) }

RemoteErrors ==
    { Error("connection", "connect ECONNREFUSED 127.0.0.1:443"),
      Error("connection", "Connection errored out. "),
      Error("other", "Not authorized to access this space. ") }

MaxValues == { Undefined, Str("high"), Num(0), Num(5), Num(754), Num(1000), Num(1500) }

Payloads ==
    { Payload(k, Undefined) : k \in {"absent", "empty", "invalid", "null"} }
    \cup { Payload("object", v) : v \in MaxValues }

\* Request bodies { text, safer }; safer is mostly left out.
ModerateBodies ==
    [text : ModerateTextValues, safer : {Undefined}]
    \cup {[text |-> Str(" you are stupid "), safer |-> Num(500)]}

\* const { text, safer = 0.1 } = req.body: the default stands in for undefined.
SaferOf(b) == IF b.safer = Undefined THEN Num(100) ELSE b.safer

\* The outbound calls: Client.connect, and client.predict with { msg, safer }.
ConnectCall == [op |-> "connect", msg |-> "", safer |-> Undefined]
PredictCall(b) == [op |-> "predict", msg |-> b.text.s, safer |-> SaferOf(b)]

ModerateInit ==
    /\ hfToken \in BOOLEAN
    /\ pc = [r \in Reqs |-> "idle"]
    /\ body = [r \in Reqs |-> [text |-> Undefined, safer |-> Undefined]]
    /\ calls = [r \in Reqs |-> <<>>]
    /\ result = [r \in Reqs |-> NoPayload]
    /\ caught = [r \in Reqs |-> NoError]
    /\ resp = [r \in Reqs |-> NoResponse]

\* Lines 27-61: the request arrives; it is answered by a failed check, or
\* Client.connect is called and the handler suspends.
ModerateReceive(r, b) ==
    /\ pc[r] = "idle"
    /\ body' = [body EXCEPT ![r] = b]
    /\ IF ModerateValidate(b.text, hfToken) # NoResponse
       THEN /\ resp' = [resp EXCEPT ![r] = ModerateValidate(b.text, hfToken)]
            /\ pc' = [pc EXCEPT ![r] = "done"]
            /\ calls' = calls
       ELSE /\ calls' = [calls EXCEPT ![r] = Append(@, ConnectCall)]
            /\ pc' = [pc EXCEPT ![r] = "connecting"]
            /\ resp' = resp
    /\ UNCHANGED <<hfToken, result, caught>>

\* Lines 59-68: the connection is there; client.predict is called.
ConnectResolve(r) ==
    /\ pc[r] = "connecting"
    /\ calls' = [calls EXCEPT ![r] = Append(@, PredictCall(body[r]))]
    /\ pc' = [pc EXCEPT ![r] = "predicting"]
    /\ UNCHANGED <<hfToken, body, result, caught, resp>>

\* An await rejects: the catch block answers.
Reject(r, error) ==
    /\ caught' = [caught EXCEPT ![r] = error]
    /\ resp' = [resp EXCEPT ![r] = CatchResponse(error)]
    /\ pc' = [pc EXCEPT ![r] = "done"]
    /\ UNCHANGED <<hfToken, body, calls, result>>

\* Faulty variant: a failed connection is tried again, twice at most.
ConnectReject_retry(r, error) ==
    /\ pc[r] = "connecting"
    /\ IF Len(calls[r]) < 3
       THEN /\ calls' = [calls EXCEPT ![r] = Append(@, ConnectCall)]
            /\ UNCHANGED <<hfToken, pc, body, result, caught, resp>>
       ELSE Reject(r, error)

ConnectReject(r, error) ==
    /\ pc[r] = "connecting"
    /\ Reject(r, error)

PredictReject(r, error) ==
    /\ pc[r] = "predicting"
    /\ Reject(r, error)

\* Lines 70-92 and the catch block: the prediction is there.
PredictResolve(r, p) ==
    /\ pc[r] = "predicting"
    /\ result' = [result EXCEPT ![r] = p]
    /\ caught' = [caught EXCEPT ![r] = Thrown(p)]
    /\ resp' = [resp EXCEPT ![r] =
                  IF Thrown(p) # NoError THEN CatchResponse(Thrown(p))
                  ELSE ModerateSuccess(p)]
    /\ pc' = [pc EXCEPT ![r] = "done"]
    /\ UNCHANGED <<hfToken, body, calls>>

Init == RewriteInit /\ ModerateInit

NextRewrite ==
    \/ \E b \in RewriteBodies : RewriteHandle(b) /\ UNCHANGED modVars
    \/ RewriteNext /\ UNCHANGED modVars

NextModerate ==
    \/ \E r \in Reqs, b \in ModerateBodies :
          ModerateReceive(r, b) /\ UNCHANGED rwVars
    \/ \E r \in Reqs : ConnectResolve(r) /\ UNCHANGED rwVars
    \/ \E r \in Reqs, e \in RemoteErrors : ConnectReject(r, e) /\ UNCHANGED rwVars
    \/ \E r \in Reqs, e \in RemoteErrors : PredictReject(r, e) /\ UNCHANGED rwVars
    \/ \E r \in Reqs, p \in Payloads : PredictResolve(r, p) /\ UNCHANGED rwVars

Next == NextRewrite \/ NextModerate

\* The rewrite endpoint alone (it never reads the credential: taken as set),
\* the moderate endpoint alone, the server.
InitRewrite == Init /\ hfToken = TRUE
SpecRewrite == InitRewrite /\ [][NextRewrite]_vars
SpecModerate == Init /\ [][NextModerate]_vars
Spec == Init /\ [][Next]_vars

(***************************************************************************)
(* Properties of POST /api/moderate, under SpecModerate.                   *)
(***************************************************************************)
Received(r) == pc[r] # "idle"

\* The outbound calls of request r, by name and in order.
Attempts(r) == [i \in DOMAIN calls[r] |-> calls[r][i].op]
Done(r) == pc[r] = "done"

\* The text is missing, no string, empty once trimmed, or too long.
InvalidModerateText(t) ==
    \/ t.t # "string"
    \/ Len(Trim(t.s)) = 0
    \/ Len(t.s) > MaxTextLen

IsErrorResponse(rs, code) ==
    /\ rs.status = code
    /\ rs.error # ""
    /\ rs.scorePct = Undefined /\ rs.score01 = Undefined /\ rs.raw = NoPayload

\* C1: a request whose text is missing, not a string, empty after trimming or
\* longer than 5000 characters is answered 400 with an error body, whether or
\* not the credential is set; a request with a valid text and no credential is
\* answered 500 with an error body.
C1_InputAndCredentialErrors ==
    \A r \in Reqs :
        Received(r) =>
            /\ InvalidModerateText(body[r].text) =>
                   Done(r) /\ IsErrorResponse(resp[r], 400)
            /\ ~InvalidModerateText(body[r].text) /\ ~hfToken =>
                   Done(r) /\ IsErrorResponse(resp[r], 500)

\* An invalid text met a missing credential and was answered 400.
C1_Witness ==
    \E r \in Reqs :
        /\ Done(r) /\ ~hfToken
        /\ IsString(body[r].text) /\ Len(body[r].text.s) > MaxTextLen
        /\ resp[r].status = 400

\* C2: a request makes no outbound call when its validation or the credential
\* check fails, and otherwise at most one Client.connect followed by at most
\* one client.predict; a request answered after a failed connect or predict
\* made the failed call and none after it.
C2_SingleAttempt ==
    \A r \in Reqs :
        /\ Attempts(r) \in {<<>>, <<"connect">>, <<"connect", "predict">>}
        /\ Received(r) /\ (InvalidModerateText(body[r].text) \/ ~hfToken) =>
               Attempts(r) = <<>>
        /\ Done(r) /\ caught[r].kind # "none" =>
               /\ resp[r].status \in {500, 503}
               /\ resp[r].error # ""
               /\ caught[r] \in RemoteErrors =>
                      Attempts(r) \in {<<"connect">>, <<"connect", "predict">>}
               /\ caught[r] \notin RemoteErrors => Attempts(r) = <<"connect", "predict">>

\* A connect failed and the request is answered with the one call made.
C2_Witness ==
    \E r \in Reqs :
        /\ Done(r)
        /\ caught[r] \in RemoteErrors
        /\ Attempts(r) = <<"connect">>
        /\ resp[r].status \in {500, 503}

\* C3 as stated: every string text whose length after trimming is between 1
\* and 5000 passes input validation, whatever white space surrounds it.
C3_LimitOnTrimmedText ==
    \A r \in Reqs :
        /\ Received(r)
        /\ IsString(body[r].text)
        /\ Len(Trim(body[r].text.s)) >= 1
        /\ Len(Trim(body[r].text.s)) <= MaxTextLen
        => resp[r].status # 400

\* C3 amended: the limit applies to the text as sent; a string text that is not
\* empty after trimming fails input validation exactly when its untrimmed
\* length exceeds 5000.
C3_LimitOnRawText ==
    \A r \in Reqs :
        /\ Received(r)
        /\ IsString(body[r].text)
        /\ Len(Trim(body[r].text.s)) >= 1
        => (resp[r].status = 400 <=> Len(body[r].text.s) > MaxTextLen)

\* A text of at most 5000 characters once trimmed, longer as sent, answered 400.
C3_Witness ==
    \E r \in Reqs :
        /\ Done(r)
        /\ IsString(body[r].text)
        /\ Len(Trim(body[r].text.s)) >= 1
        /\ Len(Trim(body[r].text.s)) <= MaxTextLen
        /\ Len(body[r].text.s) > MaxTextLen
        /\ resp[r].status = 400

\* C4: after validation, a connection failure of connect or predict is
\* answered 503 and every other failure 500.
C4_FailureClassification ==
    \A r \in Reqs :
        Done(r) /\ caught[r].kind # "none" =>
            /\ caught[r].kind = "connection" => resp[r].status = 503
            /\ caught[r].kind = "other" => resp[r].status = 500

\* The upstream payload holds a max_value that is a number in [0,1].
WellFormed(p) ==
    /\ p.kind = "object"
    /\ p.max_value.t = "number" /\ p.max_value.s = ""
    /\ p.max_value.n >= 0 /\ p.max_value.n <= 1000

\* round(100 * v) of a number v in thousandths, in thousandths.
RoundedPercent(v) == ((v.n * 100 + 500) \div 1000) * 1000

\* C5: the answer is 200 only for an upstream payload whose max_value is a
\* number in [0,1], with scorePct = round(100 * max_value) in 0..100, score01 =
\* max_value and raw the upstream data; any other payload is answered 500.
C5_ScoreContract ==
    \A r \in Reqs :
        /\ resp[r].status = 200 =>
               /\ WellFormed(result[r])
               /\ resp[r].scorePct = Num(RoundedPercent(result[r].max_value))
               /\ resp[r].scorePct.n \in { 1000 * k : k \in 0..100 }
               /\ resp[r].score01 = result[r].max_value
               /\ resp[r].raw = result[r]
        /\ Done(r) /\ Attempts(r) = <<"connect", "predict">> /\ caught[r] \notin RemoteErrors
           /\ ~WellFormed(result[r]) =>
               IsErrorResponse(resp[r], 500)

(***************************************************************************)
(* Properties of POST /api/rewrite, under SpecRewrite.                     *)
(***************************************************************************)
Responded == rwPc = "responded"
Rewritten == Responded /\ rwResp.status = 200

\* C6: a text that is missing, not a string or empty after trimming, or a tone
\* that is missing or not one of the four, is answered 400 with an error body
\* and no rewritten text; any other request is answered 200 with the rewritten
\* text and the request's tone.
C6_RewriteValidation ==
    Responded =>
        IF \/ rwBody.text.t # "string"
           \/ Len(Trim(rwBody.text.s)) = 0
           \/ rwBody.tone.t # "string"
           \/ rwBody.tone.s \notin {"professional", "calm", "friendly", "short"}
        THEN rwResp.status = 400 /\ rwResp.error # "" /\ rwResp.rewritten = ""
        ELSE rwResp.status = 200 /\ rwResp.error = "" /\ rwResp.rewritten # ""
             /\ rwResp.tone = rwBody.tone.s

\* The softened text as the template short sees it: collapsed and trimmed.
ShortInput == Trim(CollapseSpaces(rwSoftened))

HasTerminator(t) == \E i \in 1..Len(t) : SubSeq(t, i, i) \in {".", "!", "?"}

\* The prefix of t up to and including its first terminator.
UpToFirstTerminator(t) ==
    SubSeq(t, 1, CHOOSE i \in 1..Len(t) :
                    /\ SubSeq(t, i, i) \in {".", "!", "?"}
                    /\ \A j \in 1..(i - 1) : SubSeq(t, j, j) \notin {".", "!", "?"})

ShortOutput(core) == "Quick note: " \o Trim(core) \o " Let's discuss."

\* C8 as stated: for tone short, the core is the prefix up to and including
\* the first terminator whenever the text holds one, and the first 100
\* characters only when it holds none.
C8_FirstTerminatorAnywhere ==
    Rewritten /\ rwBody.tone.s = "short" =>
        rwResp.rewritten =
            ShortOutput(IF HasTerminator(ShortInput)
                        THEN UpToFirstTerminator(ShortInput)
                        ELSE SubSeq(ShortInput, 1, IF Len(ShortInput) < 100
                                                   THEN Len(ShortInput) ELSE 100))

\* C8 amended: the core is the prefix up to and including the first terminator
\* when the text holds one and does not start with one; when it holds none or
\* starts with one, the core is its first 100 characters.
C8_FirstTerminatorAfterStart ==
    Rewritten /\ rwBody.tone.s = "short" =>
        rwResp.rewritten =
            ShortOutput(IF HasTerminator(ShortInput)
                           /\ SubSeq(ShortInput, 1, 1) \notin {".", "!", "?"}
                        THEN UpToFirstTerminator(ShortInput)
                        ELSE SubSeq(ShortInput, 1, IF Len(ShortInput) < 100
                                                   THEN Len(ShortInput) ELSE 100))

\* A text of more than 100 characters that starts with a terminator and was
\* cut to its first 100 characters.
C8_Witness ==
    /\ Rewritten /\ rwBody.tone.s = "short"
    /\ Len(ShortInput) > 100
    /\ SubSeq(ShortInput, 1, 1) \in {".", "!", "?"}
    /\ rwResp.rewritten = ShortOutput(SubSeq(ShortInput, 1, 100))

\* C9: softening the output of the softening phase returns it unchanged.
C9_SofteningIdempotent ==
    Rewritten => Soften(rwSoftened) = rwSoftened

\* The softening phase replaced something in the request's text.
C9_Witness ==
    /\ Rewritten
    /\ rwSoftened # rwBody.text.s
    /\ Soften(rwSoftened) = rwSoftened

\* Target a occurs at position i of s in some letter case.
OccursAt(s, i, a) ==
    /\ i + Len(a) - 1 <= Len(s)
    /\ ToLower(SubSeq(s, i, i + Len(a) - 1)) = a

\* The occurrence is delimited on each side by a non-word character or an end
\* of the text.
Delimited(s, i, a) ==
    /\ i = 1 \/ SubSeq(s, i - 1, i - 1) \notin WordChars
    /\ i + Len(a) - 1 = Len(s) \/ SubSeq(s, i + Len(a), i + Len(a)) \notin WordChars

WholeWordAt(s, i) ==
    { a \in Targets : OccursAt(s, i, a) /\ Delimited(s, i, a) }

ReplacementOf(a) ==
    aggressivePatterns[CHOOSE k \in 1..Len(aggressivePatterns) :
        \E j \in 1..Len(aggressivePatterns[k].alts) : aggressivePatterns[k].alts[j] = a].replacement

\* s from position i on, each delimited occurrence of a target replaced by its
\* rule's replacement in one pass, everything else copied.
RECURSIVE WholeWordsReplaced(_, _)
WholeWordsReplaced(s, i) ==
    LET O == { j \in i..Len(s) :
                 /\ j = 1 \/ SubSeq(s, j - 1, j - 1) \notin WordChars
                 /\ WholeWordAt(s, j) # {} }
        j == CHOOSE j \in O : \A k \in O : j <= k
        a == CHOOSE a \in WholeWordAt(s, j) : TRUE
    IN  IF O = {} THEN SubSeq(s, i, Len(s))
        ELSE SubSeq(s, i, j - 1) \o ReplacementOf(a) \o WholeWordsReplaced(s, j + Len(a))

\* C10: the softening phase replaces every delimited occurrence of a target,
\* in any letter case, by its rule's replacement, and leaves occurrences inside
\* longer words and all other text unchanged.
C10_WholeWordsOnly ==
    Rewritten => rwSoftened = WholeWordsReplaced(rwBody.text.s, 1)

\* A text with a delimited occurrence, replaced, and a target inside a longer
\* word, still there after the softening.
C10_Witness ==
    /\ Rewritten
    /\ \E i \in 1..Len(rwBody.text.s) : WholeWordAt(rwBody.text.s, i) # {}
    /\ \E i \in 1..Len(rwSoftened), a \in Targets :
          OccursAt(rwSoftened, i, a) /\ ~Delimited(rwSoftened, i, a)
    /\ rwSoftened # rwBody.text.s
    /\ rwSoftened = WholeWordsReplaced(rwBody.text.s, 1)
=============================================================================
